---- MODULE Spec2Model ----
(***************************************************************************)
(* A model of the streaming chat orchestration core of the LLMA extension  *)
(* (src/src/extension.ts): the retrying transport, the SSE stream decoder  *)
(* of callChatAI, the extension-host side of a chat generation             *)
(* (LLMAChatProvider) and the webview script that renders it.              *)
(*                                                                         *)
(* Text is modelled as a sequence of symbols.  A symbol is one character   *)
(* (or one byte, before decoding); the lexemes "<think>" and "</think>"    *)
(* are single symbols.                                                     *)
(*                                                                         *)
(* Eleven specifications share the module:                                 *)
(*   SpecRetry    axiosPostWithRetry, one call                             *)
(*   SpecDecoder  the streaming branch of callChatAI, one call, the        *)
(*                response delivered in arbitrary byte chunks              *)
(*   Spec         the chat surface: webview + extension host + transports, *)
(*                every configuration of a send                            *)
(*   SpecCutover  the chat surface over more sends, each with its keys     *)
(*                configured and web search off                            *)
(*   SpecSend     the chat surface with what each send read recorded, and  *)
(*                provider ids of every kind                               *)
(*   SpecLive     the chat surface under fairness of the transports and    *)
(*                of the webview's message loop                            *)
(*   SpecPayload  the chat surface over sends with every key configured,   *)
(*                requests and streams that do not fail                    *)
(*   SpecThink    the chat surface for answers of content symbols and      *)
(*                think tags, one symbol a chunk                           *)
(*   SpecFiles    the applyFileChange / saveFile / revertFile commands     *)
(*   SpecNewChat  the same commands and the new-chat button                *)
(*   SpecInline   LLMAInlineCompletionProvider under fairness of its timer *)
(*                and of its request                                       *)
(***************************************************************************)
EXTENDS Integers, Sequences, FiniteSets, TLC

VARIABLES
  \* --- axiosPostWithRetry (SpecRetry) ---
  retry,
  \* --- one streaming callChatAI (SpecDecoder) ---
  call,
  \* --- chat surface (Spec) ---
  gens,              \* the handleUserMessage invocations, by number
  nextGen,           \* how many invocations have started
  abortController,   \* LLMAChatProvider._abortController: 0 is null, else the invocation owning it
  inbox,             \* messages posted to the webview and not yet handled by it
  isGenerating,      \* webview script
  currentAiMessageDiv, \* webview script: 0 is null, else the invocation whose streamStart made it
  currentAiContent,  \* webview script
  currentAiReasoning, \* webview script
  history,           \* webview script
  finalHtml,         \* webview script: the last completion render of a message element
  ui,                \* what has been posted to and rendered by the webview, per invocation
  sent,              \* what each send read from the page and the configuration (SpecSend)
  \* --- file changes (SpecFiles) ---
  workspaceFolders,  \* whether vscode.workspace.workspaceFolders is defined
  disk,              \* the files on durable storage, by fsPath
  docs,              \* the text documents the editor holds, by fsPath
  fileBackupMap,     \* LLMAChatProvider.fileBackupMap
  fileLog,           \* the file commands handled so far, each with what it reported
  pristine,          \* the files as they were when the session began
  \* --- inline completion (SpecInline) ---
  inline             \* LLMAInlineCompletionProvider and the calls made to it

retryVars == <<retry>>
callVars == <<call>>
chatVars == <<gens, nextGen, abortController, inbox, isGenerating,
              currentAiMessageDiv, currentAiContent, currentAiReasoning, history,
              finalHtml, ui, sent>>
fileVars == <<workspaceFolders, disk, docs, fileBackupMap, fileLog, pristine>>
vars == <<retry, call, gens, nextGen, abortController, inbox, isGenerating,
          currentAiMessageDiv, currentAiContent, currentAiReasoning, history,
          finalHtml, ui, sent,
          workspaceFolders, disk, docs, fileBackupMap, fileLog, pristine,
          inline>>

(***************************************************************************)
(* Bounds of the model.                                                    *)
(***************************************************************************)
MaxGen == 2         \* handleUserMessage invocations per behaviour of Spec
MaxCutoverGen == 4  \* handleUserMessage invocations per behaviour of SpecCutover
MaxChunks == 2      \* data events over all the streams of a behaviour of Spec
MaxCutoverChunks == 1  \* data events over all the streams of a behaviour of SpecCutover
MaxFileOps == 3     \* file commands per behaviour of SpecFiles
MaxLiveGen == 1     \* handleUserMessage invocations per behaviour of SpecLive
MaxLiveChunks == 2  \* data events over all the streams of a behaviour of SpecLive
MaxSendGen == 1     \* handleUserMessage invocations per behaviour of SpecSend
MaxSendChunks == 1  \* data events over all the streams of a behaviour of SpecSend
MaxPayloadGen == 2  \* handleUserMessage invocations per behaviour of SpecPayload
MaxPayloadChunks == 1  \* data events over all the streams of a behaviour of SpecPayload
MaxThinkGen == 1    \* handleUserMessage invocations per behaviour of SpecThink
MaxThinkChunks == 5 \* data events over all the streams of a behaviour of SpecThink

(***************************************************************************)
(* Text helpers: the String methods the code uses.                         *)
(***************************************************************************)
StartsWith(s, p) == Len(s) >= Len(p) /\ SubSeq(s, 1, Len(p)) = p

WhiteSpace == {" ", "\r", "\t", "\n"}

RECURSIVE TrimStart(_)
TrimStart(s) ==
  IF s # <<>> /\ Head(s) \in WhiteSpace THEN TrimStart(Tail(s)) ELSE s

RECURSIVE TrimEnd(_)
TrimEnd(s) ==
  IF s # <<>> /\ s[Len(s)] \in WhiteSpace THEN TrimEnd(SubSeq(s, 1, Len(s) - 1)) ELSE s

Trim(s) == TrimEnd(TrimStart(s))

\* s.split('\n'): the pieces between newlines; always at least one piece.
RECURSIVE SplitLines(_)
SplitLines(s) ==
  IF \E i \in 1..Len(s) : s[i] = "\n"
  THEN LET i == CHOOSE k \in 1..Len(s) : s[k] = "\n" /\ \A j \in 1..(k - 1) : s[j] # "\n"
       IN  <<SubSeq(s, 1, i - 1)>> \o SplitLines(SubSeq(s, i + 1, Len(s)))
  ELSE <<s>>

(***************************************************************************)
(* chunk.toString('utf8').  The bytes "C3" "A9" are the two-byte encoding  *)
(* of the character "E9"; every other byte is a one-byte character.  A     *)
(* lead byte with no continuation byte after it in the same chunk, and a   *)
(* continuation byte with no lead byte before it, each decode to the       *)
(* replacement character "FFFD".                                           *)
(***************************************************************************)
RECURSIVE Utf8ToString(_)
Utf8ToString(bytes) ==
  IF bytes = <<>> THEN <<>>
  ELSE IF Head(bytes) = "C3"
  THEN IF Len(bytes) >= 2 /\ bytes[2] = "A9"
       THEN <<"E9">> \o Utf8ToString(SubSeq(bytes, 3, Len(bytes)))
       ELSE <<"FFFD">> \o Utf8ToString(Tail(bytes))
  ELSE IF Head(bytes) = "A9"
  THEN <<"FFFD">> \o Utf8ToString(Tail(bytes))
  ELSE <<Head(bytes)>> \o Utf8ToString(Tail(bytes))

(***************************************************************************)
(* The provider's wire format.  A frame is the line  data: <json>  ; the   *)
(* JSON of a frame is written  { c <text> r <text> }  where the member c   *)
(* is choices[0].delta.content and the member r is                         *)
(* choices[0].delta.reasoning_content, both optional.  Anything else is    *)
(* not valid JSON.                                                         *)
(***************************************************************************)
DataPrefix == <<"d", "a", "t", "a", ":", " ">>
DoneSentinel == <<"[", "D", "O", "N", "E", "]">>
TextChars == {"x", "y", "E9", "FFFD", "<think>", "</think>"}

IsText(s) == \A i \in 1..Len(s) : s[i] \in TextChars

\* JSON.parse(dataStr), then data.choices?.[0]?.delta and its two members.
ParseFrame(dataStr) ==
  LET n == Len(dataStr)
      inner == SubSeq(dataStr, 2, n - 1)
      rAt == {i \in 1..Len(inner) : inner[i] = "r"}
      rPos == IF rAt = {} THEN Len(inner) + 1
              ELSE CHOOSE i \in rAt : \A j \in rAt : i <= j
      content == IF inner # <<>> /\ inner[1] = "c" THEN SubSeq(inner, 2, rPos - 1) ELSE <<>>
      reasoning == SubSeq(inner, rPos + 1, Len(inner))
      valid == /\ n >= 2 /\ dataStr[1] = "{" /\ dataStr[n] = "}"
               /\ \/ inner = <<>>
                  \/ inner[1] = "c"
                  \/ inner[1] = "r"
               /\ IsText(content) /\ IsText(reasoning)
  IN  IF valid
      THEN [ok |-> TRUE, hasDelta |-> inner # <<>>, content |-> content, reasoning |-> reasoning]
      ELSE [ok |-> FALSE, hasDelta |-> FALSE, content |-> <<>>, reasoning |-> <<>>]

(***************************************************************************)
(* The 'data' handler of callChatAI.  acc carries fullContent,             *)
(* fullReasoning, out (the (contentDelta, reasoningDelta) pairs passed to  *)
(* onUpdate, in order) and thrown (an exception has left the loop over the *)
(* lines, so that the rest of the lines is not looked at).                 *)
(***************************************************************************)
\* A frame that JSON.parse rejects, were the exception not caught.
DropFrameUncaught(acc, p) == [acc EXCEPT !.thrown = TRUE]

\* A frame that JSON.parse rejects: the catch block swallows the exception.
DropFrame(acc, p) == acc

\* A parsed frame: the body of the try block.
AcceptFrame(acc, p) ==
  IF p.hasDelta /\ (p.content # <<>> \/ p.reasoning # <<>>)
  THEN [acc EXCEPT !.fullContent = @ \o p.content,
                   !.fullReasoning = @ \o p.reasoning,
                   !.out = Append(@, [content |-> p.content, reasoning |-> p.reasoning])]
  ELSE acc

ProcessLineSentinelStops(acc, line) ==
  LET trimmed == Trim(line)
      dataStr == SubSeq(trimmed, Len(DataPrefix) + 1, Len(trimmed))
  IN  IF ~StartsWith(trimmed, DataPrefix) THEN acc
      ELSE IF dataStr = DoneSentinel THEN [acc EXCEPT !.thrown = TRUE]
      ELSE IF ParseFrame(dataStr).ok THEN AcceptFrame(acc, ParseFrame(dataStr))
      ELSE DropFrame(acc, ParseFrame(dataStr))

\* One iteration of  for (const line of lines).
ProcessLine(acc, line) ==
  LET trimmed == Trim(line)
      dataStr == SubSeq(trimmed, Len(DataPrefix) + 1, Len(trimmed))
  IN  IF ~StartsWith(trimmed, DataPrefix) THEN acc
      ELSE IF dataStr = DoneSentinel THEN acc
      ELSE IF ParseFrame(dataStr).ok THEN AcceptFrame(acc, ParseFrame(dataStr))
      ELSE DropFrame(acc, ParseFrame(dataStr))

RECURSIVE ProcessLines(_, _)
ProcessLines(acc, lines) ==
  IF lines = <<>> \/ acc.thrown THEN acc
  ELSE ProcessLines(ProcessLine(acc, Head(lines)), Tail(lines))

CarryOverDropped(lines) == <<>>

\* lines.pop() || '' : what is kept for the next chunk.
CarryOver(lines) == lines[Len(lines)]

\* response.data.on('data', chunk => ...), on the decoder state d.
OnData(d, chunk) ==
  LET text == d.buffer \o Utf8ToString(chunk)
      lines == SplitLines(text)
      acc == ProcessLines([fullContent |-> d.fullContent,
                           fullReasoning |-> d.fullReasoning,
                           out |-> <<>>, thrown |-> FALSE],
                          SubSeq(lines, 1, Len(lines) - 1))
  IN  [buffer |-> CarryOver(lines),
       fullContent |-> acc.fullContent,
       fullReasoning |-> acc.fullReasoning,
       out |-> acc.out]

DecoderInit == [buffer |-> <<>>, fullContent |-> <<>>, fullReasoning |-> <<>>]

\* The concatenation of the content (reasoning) deltas of a list of updates.
RECURSIVE ContentOf(_)
ContentOf(ups) == IF ups = <<>> THEN <<>> ELSE Head(ups).content \o ContentOf(Tail(ups))

RECURSIVE ReasoningOf(_)
ReasoningOf(ups) == IF ups = <<>> THEN <<>> ELSE Head(ups).reasoning \o ReasoningOf(Tail(ups))

(***************************************************************************)
(* One streaming call of callChatAI (onUpdate supplied).                   *)
(*   call.phase    "request": axios.post is awaited; "streaming": the      *)
(*                 response stream is open and the handlers are installed; *)
(*                 "closed": the transport is finished                     *)
(*   call.promise  the promise callChatAI returned                         *)
(*   call.stream, call.pos   the response body and how much has arrived    *)
(* Recorded for the properties: updates (every onUpdate invocation),       *)
(* received (the text the chunks decoded to), delivered (how many times    *)
(* the caller was handed an outcome), lateUpdates (onUpdate invocations    *)
(* after the outcome), posts (how many times axios.post was called).      *)
(***************************************************************************)
Frame(json) == DataPrefix \o json \o <<"\n">>

Streams ==
  { \* content, reasoning, then the sentinel, frames separated by blank lines
    Frame(<<"{", "c", "x", "}">>) \o <<"\n">> \o Frame(<<"{", "r", "y", "}">>) \o <<"\n">>
      \o Frame(DoneSentinel),
    \* a two-byte character, then a frame carrying both members
    Frame(<<"{", "c", "C3", "A9", "}">>) \o Frame(<<"{", "c", "x", "r", "y", "}">>),
    \* a truncated frame, then well-formed ones
    Frame(<<"{", "c", "x">>) \o Frame(<<"{", "c", "y", "}">>) \o Frame(<<"{", "r", "x", "}">>),
    \* the last frame is not followed by a newline
    Frame(<<"{", "c", "x", "}">>) \o DataPrefix \o <<"{", "c", "y", "}">>,
    \* a frame after the sentinel, CRLF line ends, a frame with no delta
    Frame(DoneSentinel \o <<"\r">>) \o Frame(<<"{", "}">>) \o Frame(<<"{", "c", "y", "}", "\r">>) }

\* resolve(value) of the promise executor: only the first settlement counts.
Resolve(c, value) ==
  IF c.promise = "pending"
  THEN [c EXCEPT !.promise = "resolved", !.value = value, !.delivered = @ + 1]
  ELSE c

\* reject(err) of the promise executor.
Reject(c, err) ==
  IF c.promise = "pending"
  THEN [c EXCEPT !.promise = "rejected", !.error = err, !.delivered = @ + 1]
  ELSE c

\* response.data.on('end', ...)
OnEndNoResolve(c) == c

\* The same, the carried-over text being parsed as a last line first.
OnEndFlushes(c) ==
  LET acc == ProcessLine([fullContent |-> c.fullContent, fullReasoning |-> c.fullReasoning,
                          out |-> <<>>, thrown |-> FALSE], c.buffer)
  IN  Resolve([c EXCEPT !.fullContent = acc.fullContent,
                        !.fullReasoning = acc.fullReasoning,
                        !.updates = @ \o acc.out], acc.fullContent)

OnEnd(c) == Resolve(c, c.fullContent)

\* response.data.on('error', ...)
OnErrorReissue(c, err) ==
  IF err = "network" THEN [c EXCEPT !.posts = @ + 1] ELSE Reject(c, err)

OnError(c, err) == Reject(c, err)

\* The catch block around  await axios.post(...)
OnPostFailure(c, err) ==
  IF err # "canceled" THEN Reject(c, err) ELSE Resolve(c, <<>>)

\* The 'data' handler applied to the call, every onUpdate invocation recorded.
OnDataCall(c, chunk) ==
  LET d == OnData([buffer |-> c.buffer, fullContent |-> c.fullContent,
                   fullReasoning |-> c.fullReasoning], chunk)
  IN  [c EXCEPT !.buffer = d.buffer,
                !.fullContent = d.fullContent,
                !.fullReasoning = d.fullReasoning,
                !.updates = @ \o d.out,
                !.received = @ \o Utf8ToString(chunk),
                !.lateUpdates = @ + (IF c.promise = "pending" THEN 0 ELSE Len(d.out))]

CallInit ==
  call \in [phase : {"request"}, stream : Streams, pos : {0}, aborted : {FALSE},
            buffer : {<<>>}, fullContent : {<<>>}, fullReasoning : {<<>>},
            promise : {"pending"}, value : {<<>>}, error : {"none"},
            updates : {<<>>}, received : {<<>>}, delivered : {0}, lateUpdates : {0},
            ended : {FALSE}, posts : {1}]

\* axios.post resolves: the response headers have arrived.
CallHeaders ==
  /\ call.phase = "request"
  /\ call' = [call EXCEPT !.phase = "streaming"]

\* axios.post rejects with a network or HTTP error.
CallPostFails ==
  /\ call.phase = "request"
  /\ call' = [OnPostFailure(call, "network") EXCEPT !.phase = "closed"]

\* The caller raises the abort signal.  Before the headers axios rejects the
\* post with a CanceledError; afterwards it emits 'error' with a CanceledError
\* on the response stream and destroys the stream.
CallAbort ==
  /\ ~call.aborted
  /\ call.phase # "closed"
  /\ call' = [(IF call.phase = "request" THEN OnPostFailure(call, "canceled")
               ELSE OnError(call, "canceled"))
              EXCEPT !.phase = "closed", !.aborted = TRUE]

\* A chunk of the response body arrives.
CallData ==
  /\ call.phase = "streaming"
  /\ \E k \in 1..(Len(call.stream) - call.pos) :
       call' = [OnDataCall(call, SubSeq(call.stream, call.pos + 1, call.pos + k))
                EXCEPT !.pos = @ + k]

\* The response body is complete: the stream emits 'end'.
CallEnd ==
  /\ call.phase = "streaming"
  /\ call.pos = Len(call.stream)
  /\ call' = [OnEnd(call) EXCEPT !.phase = "closed", !.ended = TRUE]

\* The connection breaks while the body is streamed: the stream emits 'error'.
CallStreamError ==
  /\ call.phase = "streaming"
  /\ call' = [OnError(call, "network") EXCEPT !.phase = "closed"]

(***************************************************************************)
(* axiosPostWithRetry(url, payload, config, retries), one call.            *)
(*   retry.pc  "attempt": axios.post is awaited; "backoff": the setTimeout *)
(*             promise is awaited; "returned" / "thrown": the call is over *)
(*   retry.i   the loop variable                                           *)
(* Recorded for the properties: attempts, outcomes (of every attempt, in   *)
(* order), delays (every backoff begun), abortedIn and delaysAtAbort (where *)
(* the loop was when the signal was raised).                               *)
(* An error is the triple isRetryableError reads: err.code, whether        *)
(* err.message includes 'socket hang up', and err.response?.status (0 when *)
(* there is no response).                                                  *)
(***************************************************************************)
Retries == 2
BackoffUnit == 1000

Err(code, hangUp, status) == [code |-> code, hangUp |-> hangUp, status |-> status]

\* The outcome of an attempt that got a response.
Responded == Err("ok", FALSE, 200)

CanceledError == Err("ERR_CANCELED", FALSE, 0)

TransportErrors ==
  { Err("ECONNRESET", FALSE, 0), Err("ETIMEDOUT", FALSE, 0), Err("ECONNABORTED", FALSE, 0),
    Err("none", TRUE, 0), Err("ERR_BAD_RESPONSE", FALSE, 500), Err("ERR_BAD_RESPONSE", FALSE, 503),
    Err("ERR_BAD_REQUEST", FALSE, 401), Err("ERR_BAD_REQUEST", FALSE, 429),
    Err("ENOTFOUND", FALSE, 0) }

\* isRetryableError with the status test widened to every error status.
isRetryableErrorAnyStatus(err) ==
  \/ err.code = "ECONNRESET" \/ err.code = "ETIMEDOUT" \/ err.code = "ECONNABORTED"
  \/ err.hangUp
  \/ (err.status >= 400 /\ err.status < 600)

\* isRetryableError taking every error that carries no response as transient.
isRetryableErrorNoResponse(err) ==
  \/ err.code = "ECONNRESET" \/ err.code = "ETIMEDOUT" \/ err.code = "ECONNABORTED"
  \/ err.hangUp
  \/ err.status = 0
  \/ (err.status >= 500 /\ err.status < 600)

isRetryableError(err) ==
  \/ err.code = "ECONNRESET" \/ err.code = "ETIMEDOUT" \/ err.code = "ECONNABORTED"
  \/ err.hangUp
  \/ (err.status >= 500 /\ err.status < 600)

\* const delay = (i + 1) * 1000
BackoffDelayFlat(i) == BackoffUnit

BackoffDelay(i) == (i + 1) * BackoffUnit

\* const isLast = i === retries
IsLastAttemptLate(i) == i = Retries + 1

IsLastAttempt(i) == i = Retries

RetryInit ==
  retry = [pc |-> "attempt", i |-> 0, aborted |-> FALSE, abortedIn |-> "none",
           delaysAtAbort |-> 0, attempts |-> 0,
           outcomes |-> <<>>, delays |-> <<>>, result |-> 0, error |-> Err("none", FALSE, 0)]

\* The catch block of the loop body, for the error err of attempt i.
RetryCatch(r, err) ==
  IF IsLastAttempt(r.i) \/ ~isRetryableError(err)
  THEN [r EXCEPT !.pc = "thrown", !.error = err]
  ELSE [r EXCEPT !.pc = "backoff", !.delays = Append(@, BackoffDelay(r.i))]

\* axios.post resolves: the response of this attempt is returned.
RetryAttemptSucceeds ==
  /\ retry.pc = "attempt"
  /\ ~retry.aborted
  /\ retry' = [retry EXCEPT !.pc = "returned", !.attempts = @ + 1,
                            !.outcomes = Append(@, Responded), !.result = retry.attempts + 1]

\* axios.post rejects.  With the signal raised the rejection is a CanceledError.
RetryAttemptFails ==
  /\ retry.pc = "attempt"
  /\ \E err \in (IF retry.aborted THEN {CanceledError} ELSE TransportErrors) :
       retry' = RetryCatch([retry EXCEPT !.attempts = @ + 1, !.outcomes = Append(@, err)], err)

\* The backoff timer fires: the loop goes round.
RetryBackoffElapses ==
  /\ retry.pc = "backoff"
  /\ retry' = [retry EXCEPT !.pc = "attempt", !.i = @ + 1]

\* The caller raises the abort signal given in config.signal.
RetryAbort ==
  /\ retry.pc \in {"attempt", "backoff"}
  /\ ~retry.aborted
  /\ retry' = [retry EXCEPT !.aborted = TRUE, !.abortedIn = retry.pc,
                            !.delaysAtAbort = Len(retry.delays)]

\* axios.isCancel(error)
isCancel(err) == err.code = "ERR_CANCELED"

\* What the non-streaming branch of callChatAI hands its caller once
\* axiosPostWithRetry is over: the content of the response, the error
\* rethrown, or '' for a cancellation.
NonStreamingResult(r) ==
  IF r.pc = "returned" THEN [kind |-> "return", value |-> "content", error |-> Err("none", FALSE, 0)]
  ELSE IF r.pc = "thrown"
  THEN (IF ~isCancel(r.error)
        THEN [kind |-> "throw", value |-> "", error |-> r.error]
        ELSE [kind |-> "return", value |-> "", error |-> Err("none", FALSE, 0)])
  ELSE [kind |-> "pending", value |-> "", error |-> Err("none", FALSE, 0)]

(***************************************************************************)
(* The chat surface.                                                       *)
(*                                                                         *)
(* Extension host.  gens[g] is the g-th invocation of handleUserMessage:   *)
(*   pc       "idle" (not invoked yet), "search" (await searchWeb),        *)
(*            "request" (await axios.post inside callChatAI), "streaming"  *)
(*            (the response stream is open), "done" (returned)             *)
(*   aborted  the state of the AbortSignal the invocation created          *)
(*   buffer, fullContent, fullReasoning   the locals of its callChatAI     *)
(* and, recorded for the properties,                                       *)
(*   stopped  its signal was raised by a stopGeneration command            *)
(*   ending   how its call ended: "end" (the stream ended), "error" (the   *)
(*            transport failed), "abort" (the signal was raised), "nokey"  *)
(*            and "nosearchkey" (it returned before any call)              *)
(* JavaScript runs a handler to completion and then every continuation     *)
(* that became ready in it, before the next event is taken: an action is   *)
(* one event with the continuations it makes ready.                        *)
(*                                                                         *)
(* ui[g] counts the messages invocation g posted to the webview, by type,  *)
(* and pushed, the history entries the webview pushed handling them.       *)
(***************************************************************************)
Gens == 1..(IF MaxGen > MaxCutoverGen THEN MaxGen ELSE MaxCutoverGen)

\* No payload has been built.
NoPayload == [built |-> FALSE, messages |-> <<>>]

GenIdle == [pc |-> "idle", aborted |-> FALSE, buffer |-> <<>>, fullContent |-> <<>>,
            fullReasoning |-> <<>>, stopped |-> FALSE, ending |-> "none",
            history |-> <<>>, searched |-> FALSE, payload |-> NoPayload]

UiNone == [streamStart |-> 0, streamUpdate |-> 0, streamEnd |-> 0,
           addWarningResponse |-> 0, addErrorResponse |-> 0, pushed |-> 0]

\* The frames a provider sends in the chat behaviours, each a whole line.
ChatChunks ==
  { Frame(<<"{", "c", "x", "}">>), Frame(<<"{", "c", "<think>", "}">>),
    Frame(<<"{", "r", "y", "}">>) }

ChunksSoFar == LET RECURSIVE Sum(_)
                   Sum(g) == IF g = 0 THEN 0 ELSE ui[g].streamUpdate + Sum(g - 1)
               IN  Sum(nextGen)

\* The host state an event handler works on.
Host == [gens |-> gens, abortController |-> abortController, inbox |-> inbox, ui |-> ui]

\* this._view.webview.postMessage({type, content, reasoning}) by invocation g.
PostMessage(h, g, type, content, reasoning) ==
  [h EXCEPT !.inbox = Append(@, [type |-> type, gen |-> g, content |-> content,
                                 reasoning |-> reasoning]),
            !.ui[g][type] = @ + 1]

Post(h, g, type) == PostMessage(h, g, type, <<>>, <<>>)

\* The finally block of handleUserMessage.
FinallyKeepsController(h, g) ==
  Post([h EXCEPT !.gens[g].pc = "done"], g, "streamEnd")

Finally(h, g) ==
  Post([h EXCEPT !.abortController = 0, !.gens[g].pc = "done"], g, "streamEnd")

\* await callChatAI(...) returned: the statement after it, then finally.
AfterCallResolved(h, g) == Finally(Post(h, g, "streamEnd"), g)

\* await callChatAI(...) threw err: the catch block, then finally.
AfterCallRejected(h, g, err) ==
  Finally(Post(h, g, IF err = "canceled" THEN "addWarningResponse" ELSE "addErrorResponse"), g)

\* controller.abort() on the controller of invocation o, and the continuations
\* of o it makes ready.  A pending axios.post rejects with a CanceledError, which
\* callChatAI turns into resolve(''); an open response stream emits 'error' with
\* a CanceledError and is destroyed, which callChatAI turns into reject(err); an
\* invocation awaiting searchWeb only has its signal raised.
Abort(h, o) ==
  LET a == [h EXCEPT !.gens[o].aborted = TRUE]
  IN  IF h.gens[o].pc = "request"
      THEN [a EXCEPT !.gens[o].ending = "abort", !.gens[o].pc = "resolved"]
      ELSE IF h.gens[o].pc = "streaming"
      THEN [a EXCEPT !.gens[o].ending = "abort", !.gens[o].pc = "rejected"]
      ELSE a

\* The continuation of invocation o after its callChatAI promise settled.
Continue(h, o) ==
  IF o # 0 /\ h.gens[o].pc = "resolved" THEN AfterCallResolved(h, o)
  ELSE IF o # 0 /\ h.gens[o].pc = "rejected" THEN AfterCallRejected(h, o, "canceled")
  ELSE h

\* The text the user typed, the system prompt of the mode, and what
\* formatSearchResults returns.
UserText == <<"q">>

SystemPrompt == <<"s">>

WebSearchResults == <<"w">>

\* enhancedUserText + contextPrompt, with no active editor and no attached
\* file (contextPrompt is then empty).
EnhancedUserText(userText, searched) ==
  IF searched THEN userText \o <<"\n", "\n">> \o WebSearchResults ELSE userText

BuildMessagesNoHistory(systemPrompt, hist, userContent) ==
  <<[role |-> "system", content |-> systemPrompt],
    [role |-> "user", content |-> userContent]>>

\* const messages = [{role:'system',...}, ...history, {role:'user',...}]
BuildMessages(systemPrompt, hist, userContent) ==
  <<[role |-> "system", content |-> systemPrompt]>> \o hist
    \o <<[role |-> "user", content |-> userContent]>>

\* let payload = { messages: messages, ..., stream: isStreaming }
Payload(messages) == [built |-> TRUE, messages |-> messages]

\* callChatAI(..., signal, onUpdate) up to its first await: axios.post is
\* issued.  With the signal already raised axios rejects at once with a
\* CanceledError and callChatAI resolves with ''.
StartCall(h0, g) ==
  LET h == [h0 EXCEPT !.gens[g].payload =
              Payload(BuildMessages(SystemPrompt, h0.gens[g].history,
                                    EnhancedUserText(UserText, h0.gens[g].searched)))]
  IN  IF h.gens[g].aborted
      THEN AfterCallResolved([h EXCEPT !.gens[g].ending = "abort"], g)
      ELSE [h EXCEPT !.gens[g].pc = "request"]

\* getApiKey(config, model), configured telling whether the setting of a
\* known provider holds a key: 'local' for the local provider, undefined for
\* an unknown provider id.
getApiKey(model, configured) ==
  IF model = "local" THEN TRUE
  ELSE IF model \in {"deepseek", "qwen", "douban", "zhipu", "huggingface"} THEN configured
  ELSE FALSE

\* if (model !== 'local' && !apiKey)
MissingCredentialUnchecked(model, key) == FALSE

MissingCredential(model, key) == model # "local" /\ ~key

\* handleUserMessage from its entry to its first await (or its return), for the
\* new invocation g.  apiKey: getApiKey found a key; serpKey: a SerpApi key is
\* configured.  The showSearchStatus message only adds an element to the page
\* and is left out.
HandleUserMessage(h, g, hist, model, apiKey, useWebSearch, serpKey) ==
  LET old == h.abortController
      h1 == IF old # 0 THEN Abort(h, old) ELSE h
      h2 == [h1 EXCEPT !.abortController = g, !.gens[g].history = hist]
  IN  IF MissingCredential(model, getApiKey(model, apiKey))
      THEN [Post(h2, g, "addErrorResponse") EXCEPT !.abortController = 0,
                                                   !.gens[g].pc = "done",
                                                   !.gens[g].ending = "nokey"]
      ELSE IF useWebSearch /\ ~serpKey
      THEN Finally([Post(h2, g, "addErrorResponse") EXCEPT !.abortController = 0,
                                                           !.gens[g].ending = "nosearchkey"], g)
      ELSE IF useWebSearch
      THEN [h2 EXCEPT !.gens[g].pc = "search", !.gens[g].searched = TRUE]
      ELSE StartCall(Post(h2, g, "streamStart"), g)

\* The onUpdate callback of handleUserMessage, for each delta of a chunk.
RECURSIVE OnUpdates(_, _, _)
OnUpdates(h, g, out) ==
  IF out = <<>> THEN h
  ELSE OnUpdates(PostMessage(h, g, "streamUpdate", Head(out).content, Head(out).reasoning),
                 g, Tail(out))

SetHost(h) ==
  /\ gens' = h.gens
  /\ abortController' = h.abortController
  /\ inbox' = h.inbox
  /\ ui' = h.ui

webviewVars == <<isGenerating, currentAiMessageDiv, currentAiContent, currentAiReasoning,
                 history, finalHtml>>

(***************************************************************************)
(* Webview script: think-tag stripping.                                    *)
(*   text.replace(/<think>[\s\S]*?(?:<\/think>|$)/gi, '').trimStart()      *)
(***************************************************************************)
\* What follows the lazy match [\s\S]*?(?:<\/think>|$) at the start of s.
RECURSIVE AfterThinkSpan(_)
AfterThinkSpan(s) ==
  IF s = <<>> THEN <<>>
  ELSE IF Head(s) = "</think>" THEN Tail(s)
  ELSE AfterThinkSpan(Tail(s))

RECURSIVE RemoveThinkSpansClosedOnly(_)
RemoveThinkSpansClosedOnly(s) ==
  IF s = <<>> THEN <<>>
  ELSE IF Head(s) = "<think>" /\ \E i \in 2..Len(s) : s[i] = "</think>"
  THEN RemoveThinkSpansClosedOnly(AfterThinkSpan(Tail(s)))
  ELSE <<Head(s)>> \o RemoveThinkSpansClosedOnly(Tail(s))

RECURSIVE RemoveThinkSpans(_)
RemoveThinkSpans(s) ==
  IF s = <<>> THEN <<>>
  ELSE IF Head(s) = "<think>" THEN RemoveThinkSpans(AfterThinkSpan(Tail(s)))
  ELSE <<Head(s)>> \o RemoveThinkSpans(Tail(s))

CleanContent(s) == TrimStart(RemoveThinkSpans(s))

\* matchEnd[1]: the text the group ([\s\S]*?) captures at the start of s.
RECURSIVE ThinkSpanText(_)
ThinkSpanText(s) ==
  IF s = <<>> \/ Head(s) = "</think>" THEN <<>>
  ELSE <<Head(s)>> \o ThinkSpanText(Tail(s))

\* The successive matches of thinkRegexEnd.exec(currentAiContent), each by
\* its group.
RECURSIVE ThinkSpans(_)
ThinkSpans(s) ==
  IF s = <<>> THEN <<>>
  ELSE IF Head(s) = "<think>"
  THEN <<ThinkSpanText(Tail(s))>> \o ThinkSpans(AfterThinkSpan(Tail(s)))
  ELSE ThinkSpans(Tail(s))

\* extractedReasoningEnd += (extractedReasoningEnd ? '\n' : '') + matchEnd[1]
RECURSIVE JoinSpans(_, _)
JoinSpans(acc, spans) ==
  IF spans = <<>> THEN acc
  ELSE JoinSpans(acc \o (IF acc # <<>> THEN <<"\n">> ELSE <<>>) \o Head(spans), Tail(spans))

ExtractedReasoning(s) == JoinSpans(<<>>, ThinkSpans(s))

\* The render of streamUpdate: extractedReasoning starts as currentAiReasoning
\* and the groups of the matches are joined to it.
StreamRender(div, reasoning, text) ==
  [gen |-> div,
   hasReasoning |-> JoinSpans(reasoning, ThinkSpans(text)) # <<>>,
   reasoning |-> IF JoinSpans(reasoning, ThinkSpans(text)) # <<>>
                 THEN Trim(JoinSpans(reasoning, ThinkSpans(text)))
                 ELSE <<>>,
   content |-> CleanContent(text)]

\* The completion render of streamEnd: the reasoning block (present when
\* extractedReasoningEnd is not empty) and the content block.
NoRender == [gen |-> 0, hasReasoning |-> FALSE, reasoning |-> <<>>, content |-> <<>>]

FinalRender(div, text) ==
  [gen |-> div,
   hasReasoning |-> ExtractedReasoning(text) # <<>>,
   reasoning |-> IF ExtractedReasoning(text) # <<>> THEN Trim(ExtractedReasoning(text))
                 ELSE <<>>,
   content |-> CleanContent(text)]

(***************************************************************************)
(* Actions of the chat surface.                                            *)
(***************************************************************************)
\* What a send reads from the page and the configuration.
SendInputs == [model : {"deepseek", "local"}, apiKey : BOOLEAN,
               useWebSearch : BOOLEAN, serpKey : BOOLEAN]

DirectInputs == {in \in SendInputs : in.apiKey /\ ~in.useWebSearch}

\* The sends of SpecSend: a known provider, the local one, an unknown id.
ProviderInputs == [model : {"deepseek", "local", "other"}, apiKey : BOOLEAN,
                   useWebSearch : BOOLEAN, serpKey : BOOLEAN]

\* The user sends a message: sendMessage() of the webview script, then the
\* 'sendMessage' case of onDidReceiveMessage, which runs handleUserMessage.
SendMessageInput(limit, in) ==
  /\ ~isGenerating
  /\ nextGen < limit
  /\ SetHost(Continue(HandleUserMessage(Host, nextGen + 1, history, in.model, in.apiKey,
                                        in.useWebSearch, in.serpKey),
                      abortController))
  /\ nextGen' = nextGen + 1
  /\ isGenerating' = TRUE
  /\ history' = Append(history, [role |-> "user", content |-> UserText])
  /\ UNCHANGED <<currentAiMessageDiv, currentAiContent, currentAiReasoning, finalHtml>>

SendMessage(limit, inputs) == \E in \in inputs : SendMessageInput(limit, in)

\* The sends of SpecPayload: every key configured, web search on or off.
KeyedInputs == {in \in SendInputs : in.apiKey /\ in.serpKey}

\* The send of SpecThink: keys configured, web search off.
ThinkInputs == {in \in SendInputs : in.model = "deepseek" /\ in.apiKey /\ ~in.useWebSearch
                                    /\ ~in.serpKey}

\* The frames of SpecThink: one content symbol each.
ThinkChunks ==
  { Frame(<<"{", "c", "x", "}">>), Frame(<<"{", "c", "<think>", "}">>),
    Frame(<<"{", "c", "</think>", "}">>) }

\* The same, what the send read being recorded.
SendMessageRecorded(limit, inputs) ==
  \E in \in inputs : SendMessageInput(limit, in) /\ sent' = Append(sent, in)

\* The 'stopGeneration' case of onDidReceiveMessage.
StopGenerationHandler(h) ==
  IF h.abortController # 0
  THEN LET o == h.abortController
       IN  Continue([Abort([h EXCEPT !.gens[o].stopped = TRUE], o)
                     EXCEPT !.abortController = 0], o)
  ELSE h

\* The user clicks the stop button, which is shown while isGenerating.
StopGeneration ==
  /\ isGenerating
  /\ SetHost(StopGenerationHandler(Host))
  /\ UNCHANGED <<nextGen, webviewVars>>

\* searchWeb settles (its failure is caught and only changes the prompt):
\* streamStart is posted and callChatAI is called.
SearchDone(g) ==
  /\ gens[g].pc = "search"
  /\ SetHost(StartCall(Post(Host, g, "streamStart"), g))
  /\ UNCHANGED <<nextGen, webviewVars>>

\* The response headers of invocation g arrive.
ResponseHeaders(g) ==
  /\ gens[g].pc = "request"
  /\ gens' = [gens EXCEPT ![g].pc = "streaming"]
  /\ UNCHANGED <<nextGen, abortController, inbox, ui, webviewVars>>

\* axios.post of invocation g fails: callChatAI rejects.
RequestFails(g) ==
  /\ gens[g].pc = "request"
  /\ SetHost(AfterCallRejected([Host EXCEPT !.gens[g].ending = "error"], g, "network"))
  /\ UNCHANGED <<nextGen, webviewVars>>

\* A chunk arrives on the response stream of invocation g.
StreamDataOf(g, limit, chunks) ==
  /\ gens[g].pc = "streaming"
  /\ ChunksSoFar < limit
  /\ \E chunk \in chunks :
       LET d == OnData([buffer |-> gens[g].buffer, fullContent |-> gens[g].fullContent,
                        fullReasoning |-> gens[g].fullReasoning], chunk)
       IN  SetHost(OnUpdates([Host EXCEPT !.gens[g].buffer = d.buffer,
                                          !.gens[g].fullContent = d.fullContent,
                                          !.gens[g].fullReasoning = d.fullReasoning],
                             g, d.out))
  /\ UNCHANGED <<nextGen, webviewVars>>

StreamData(g, limit) == StreamDataOf(g, limit, ChatChunks)

\* The response stream of invocation g ends: callChatAI resolves.
StreamEnds(g) ==
  /\ gens[g].pc = "streaming"
  /\ SetHost(AfterCallResolved([Host EXCEPT !.gens[g].ending = "end"], g))
  /\ UNCHANGED <<nextGen, webviewVars>>

\* The response stream of invocation g emits 'error': callChatAI rejects.
StreamFails(g) ==
  /\ gens[g].pc = "streaming"
  /\ SetHost(AfterCallRejected([Host EXCEPT !.gens[g].ending = "error"], g, "network"))
  /\ UNCHANGED <<nextGen, webviewVars>>

\* window.addEventListener('message', ...) of the webview script, for the
\* oldest message not yet handled.
WebviewReceive ==
  /\ inbox # <<>>
  /\ inbox' = Tail(inbox)
  /\ LET m == Head(inbox)
     IN  CASE m.type = "streamStart" ->
                /\ isGenerating' = TRUE
                /\ currentAiContent' = <<>>
                /\ currentAiReasoning' = <<>>
                /\ currentAiMessageDiv' = m.gen
                /\ UNCHANGED <<history, finalHtml, ui>>
           [] m.type = "streamUpdate" ->
                /\ IF currentAiMessageDiv = 0
                   THEN UNCHANGED <<currentAiContent, currentAiReasoning>>
                   ELSE /\ currentAiReasoning' = currentAiReasoning \o m.reasoning
                        /\ currentAiContent' = currentAiContent \o m.content
                /\ UNCHANGED <<isGenerating, currentAiMessageDiv, history, finalHtml, ui>>
           [] m.type = "streamEnd" ->
                /\ finalHtml' = IF currentAiMessageDiv # 0
                                 THEN FinalRender(currentAiMessageDiv, currentAiContent)
                                 ELSE finalHtml
                /\ history' = Append(history, [role |-> "assistant",
                                               content |-> CleanContent(currentAiContent)])
                /\ ui' = [ui EXCEPT ![m.gen].pushed = @ + 1]
                /\ isGenerating' = FALSE
                /\ currentAiMessageDiv' = 0
                /\ UNCHANGED <<currentAiContent, currentAiReasoning>>
           [] m.type \in {"addErrorResponse", "addWarningResponse"} ->
                /\ isGenerating' = FALSE
                /\ UNCHANGED <<currentAiMessageDiv, currentAiContent, currentAiReasoning,
                               history, finalHtml, ui>>
  /\ UNCHANGED <<nextGen, gens, abortController>>

ChatInit ==
  /\ sent = <<>>
  /\ gens = [g \in Gens |-> GenIdle]
  /\ nextGen = 0
  /\ abortController = 0
  /\ inbox = <<>>
  /\ isGenerating = FALSE
  /\ currentAiMessageDiv = 0
  /\ currentAiContent = <<>>
  /\ currentAiReasoning = <<>>
  /\ history = <<>>
  /\ finalHtml = NoRender
  /\ ui = [g \in Gens |-> UiNone]

(***************************************************************************)
(* File changes: the applyFileChange, saveFile and revertFile commands of  *)
(* LLMAChatProvider.                                                       *)
(*   disk[p]           the file at fsPath p on durable storage             *)
(*   docs[p]           the text document of p when the editor holds one;   *)
(*                     openTextDocument gives it, or loads the file        *)
(*   fileBackupMap[p]  the entry of p: none, null, or the captured text    *)
(* A handler is one step: what it awaits (fs.stat, openTextDocument,       *)
(* applyEdit, showTextDocument, save) is given its outcome in the step.    *)
(* The outcome of workspace.applyEdit is an input: "applied", "rejected"   *)
(* (it resolves to false and changes nothing) or "throws".                 *)
(***************************************************************************)
FilePaths == {"a.txt", "/ws/a.txt", "/tmp/b.txt"}

FsPaths == {"/ws/a.txt", "/tmp/b.txt"}

Contents == {"x", "y"}

EditOutcomes == {"applied", "rejected", "throws"}

\* path.isAbsolute(filepath)
isAbsolute(filepath) == filepath \in {"/ws/a.txt", "/tmp/b.txt"}

\* vscode.Uri.joinPath(workspaceFolders[0].uri, filepath).fsPath, the first
\* workspace folder being /ws
joinPath(filepath) == IF filepath = "a.txt" THEN "/ws/a.txt" ELSE filepath

NullUri == "null"

\* resolveFilePath(filepath): the fsPath of the Uri returned, or NullUri
resolveFilePath(ws, filepath) ==
  IF ~ws THEN NullUri
  ELSE IF isAbsolute(filepath) THEN filepath ELSE joinPath(filepath)

NoFile == [exists |-> FALSE, text |-> ""]
FileOf(text) == [exists |-> TRUE, text |-> text]
NoDoc == [open |-> FALSE, text |-> ""]
DocOf(text) == [open |-> TRUE, text |-> text]
NoBackup == [has |-> FALSE, isNull |-> FALSE, text |-> ""]
BackupNull == [has |-> TRUE, isNull |-> TRUE, text |-> ""]
BackupOf(text) == [has |-> TRUE, isNull |-> FALSE, text |-> text]

Files == [workspaceFolders |-> workspaceFolders, disk |-> disk, docs |-> docs,
          fileBackupMap |-> fileBackupMap, fileLog |-> fileLog]

\* (await vscode.workspace.openTextDocument(uri)).getText()
getText(f, p) == IF f.docs[p].open THEN f.docs[p].text ELSE f.disk[p].text

\* openTextDocument(uri) rejects when there is neither a document nor a file.
CanOpen(f, p) == f.docs[p].open \/ f.disk[p].exists

Logged(f, op, filepath, p, content, edit, result) ==
  [f EXCEPT !.fileLog = Append(@, [op |-> op, filepath |-> filepath, fsPath |-> p,
                                   content |-> content, edit |-> edit, result |-> result])]

\* if (!this.fileBackupMap.has(fsPath)) this.fileBackupMap.set(fsPath, value)
CaptureBackupAlways(map, p, value) == [map EXCEPT ![p] = value]

CaptureBackup(map, p, value) ==
  IF ~map[p].has THEN [map EXCEPT ![p] = value] ELSE map

\* handleApplyFileChange(filepath, content), edit being what applyEdit does.
handleApplyFileChange(f, filepath, content, edit) ==
  LET p == resolveFilePath(f.workspaceFolders, filepath) IN
  IF p = NullUri
  THEN Logged(f, "apply", filepath, p, content, "none", "NoWorkspaceOpen")
  ELSE IF f.disk[p].exists
  THEN LET b == [f EXCEPT !.fileBackupMap = CaptureBackup(@, p, BackupOf(getText(f, p)))] IN
       CASE edit = "applied" ->
              Logged([b EXCEPT !.docs[p] = DocOf(content)],
                     "apply", filepath, p, content, edit, "fileChangeApplied")
         [] edit = "rejected" ->
              Logged([b EXCEPT !.docs[p] = DocOf(getText(f, p))],
                     "apply", filepath, p, content, edit, "fileChangeApplied")
         [] OTHER ->
              Logged(b, "apply", filepath, p, content, edit, "fileChangeError")
  ELSE LET b == [f EXCEPT !.fileBackupMap = CaptureBackup(@, p, BackupNull)] IN
       CASE edit = "applied" ->
              Logged([b EXCEPT !.disk[p] = FileOf(""), !.docs[p] = DocOf(content)],
                     "apply", filepath, p, content, edit, "fileChangeApplied")
         \* nothing was created: the openTextDocument that follows rejects
         [] OTHER ->
              Logged(b, "apply", filepath, p, content, edit, "fileChangeError")

\* handleSaveFile(filepath)
handleSaveFile(f, filepath) ==
  LET p == resolveFilePath(f.workspaceFolders, filepath) IN
  IF p = NullUri
  THEN Logged(f, "save", filepath, p, "", "none", "silent")
  ELSE IF ~CanOpen(f, p)
  THEN Logged(f, "save", filepath, p, "", "none", "saveFailed")
  ELSE Logged([f EXCEPT !.disk[p] = FileOf(getText(f, p)), !.docs[p] = DocOf(getText(f, p))],
              "save", filepath, p, "", "none", "fileChangeSaved")

\* originalContent === null || originalContent === undefined
IsAbsentBackupFalsy(b) == b.isNull \/ b.text = ""

IsAbsentBackupUndefinedOnly(b) == FALSE

IsAbsentBackup(b) == b.isNull

\* this.fileBackupMap.has(fsPath)
HasBackupAlways(map, p) == TRUE

HasBackup(map, p) == map[p].has

\* handleRevertFile(filepath), edit being what applyEdit does.
handleRevertFile(f, filepath, edit) ==
  LET p == resolveFilePath(f.workspaceFolders, filepath) IN
  IF p = NullUri
  THEN Logged(f, "revert", filepath, p, "", "none", "silent")
  ELSE IF ~HasBackup(f.fileBackupMap, p)
  THEN Logged(f, "revert", filepath, p, "", "none", "NoBackupFound")
  ELSE IF IsAbsentBackup(f.fileBackupMap[p])
  THEN CASE edit = "applied" ->
              Logged([f EXCEPT !.disk[p] = NoFile, !.docs[p] = NoDoc],
                     "revert", filepath, p, "", edit, "fileChangeReverted")
         [] edit = "rejected" ->
              Logged(f, "revert", filepath, p, "", edit, "fileChangeReverted")
         [] OTHER ->
              Logged(f, "revert", filepath, p, "", edit, "revertFailed")
  ELSE IF ~CanOpen(f, p)
  THEN Logged(f, "revert", filepath, p, "", "none", "revertFailed")
  ELSE CASE edit = "applied" ->
              Logged([f EXCEPT !.docs[p] = DocOf(f.fileBackupMap[p].text)],
                     "revert", filepath, p, "", edit, "fileChangeReverted")
         [] edit = "rejected" ->
              Logged([f EXCEPT !.docs[p] = DocOf(getText(f, p))],
                     "revert", filepath, p, "", edit, "fileChangeReverted")
         [] OTHER ->
              Logged(f, "revert", filepath, p, "", edit, "revertFailed")

SetFiles(f) ==
  /\ disk' = f.disk
  /\ docs' = f.docs
  /\ fileBackupMap' = f.fileBackupMap
  /\ fileLog' = f.fileLog
  /\ UNCHANGED <<workspaceFolders, pristine>>

\* The webview posts applyFileChange.
ApplyFileChange ==
  /\ Len(fileLog) < MaxFileOps
  /\ \E filepath \in FilePaths, content \in Contents, edit \in EditOutcomes :
       SetFiles(handleApplyFileChange(Files, filepath, content, edit))

\* The webview posts saveFile.
SaveFile ==
  /\ Len(fileLog) < MaxFileOps
  /\ \E filepath \in FilePaths : SetFiles(handleSaveFile(Files, filepath))

\* The webview posts revertFile.
RevertFile ==
  /\ Len(fileLog) < MaxFileOps
  /\ \E filepath \in FilePaths, edit \in EditOutcomes :
       SetFiles(handleRevertFile(Files, filepath, edit))

\* The user clicks the new-chat button: the click handler of newChatBtn, which
\* posts nothing to the extension host.  The click is entered in fileLog.
NewChat ==
  /\ Len(fileLog) < MaxFileOps
  /\ history' = <<>>
  /\ fileLog' = Append(fileLog, [op |-> "newChat", filepath |-> "", fsPath |-> "",
                                  content |-> "", edit |-> "none", result |-> "none"])
  /\ UNCHANGED <<workspaceFolders, disk, docs, fileBackupMap, pristine>>
  /\ UNCHANGED <<gens, nextGen, abortController, inbox, isGenerating, currentAiMessageDiv,
                 currentAiContent, currentAiReasoning, finalHtml, ui, sent>>

\* The session begins with a.txt absent or present (empty or not, open in the
\* editor or not) and b.txt present, with or without a workspace folder.
FilesInit ==
  /\ workspaceFolders \in BOOLEAN
  /\ \E a \in {NoFile, FileOf(""), FileOf("c")}, opened \in BOOLEAN :
       /\ disk = [p \in FsPaths |-> IF p = "/ws/a.txt" THEN a ELSE FileOf("c")]
       /\ docs = [p \in FsPaths |-> IF p = "/ws/a.txt" /\ a.exists /\ opened
                                    THEN DocOf(a.text) ELSE NoDoc]
  /\ fileBackupMap = [p \in FsPaths |-> NoBackup]
  /\ fileLog = <<>>
  /\ pristine = disk

FilesIdle ==
  /\ workspaceFolders = TRUE
  /\ disk = [p \in FsPaths |-> NoFile]
  /\ docs = [p \in FsPaths |-> NoDoc]
  /\ fileBackupMap = [p \in FsPaths |-> NoBackup]
  /\ fileLog = <<>>
  /\ pristine = disk

(***************************************************************************)
(* LLMAInlineCompletionProvider.                                           *)
(*                                                                         *)
(* A call is numbered in the order the editor makes it.  Its promise is    *)
(* the one provideInlineCompletionItems returns; its token is the          *)
(* CancellationToken the editor passed; its controller is the              *)
(* AbortController its timer callback made.                                *)
(***************************************************************************)
MaxInlineCalls == 3

InlineCalls == 1..MaxInlineCalls

\* pc: "none" not called, "debounce" its timer is pending, "cleared" its
\* timer was cleared before it fired, "fetching" awaiting fetchAICompletion,
\* "returned" its body or its timer callback has run to its end.
InlineCallIdle ==
  [pc |-> "none", promise |-> "none", value |-> "none",
   cancelled |-> FALSE, listening |-> FALSE, aborted |-> FALSE]

\* resolve(v) of the returned promise: a settled promise stays as it is.
ResolveItems(c, v) ==
  IF c.promise = "pending" THEN [c EXCEPT !.promise = "resolved", !.value = v] ELSE c

\* clearTimeout(this._timer): a timer that has fired is not affected.
ClearTimeout(calls, t) ==
  IF t # 0 /\ calls[t].pc = "debounce" THEN [calls EXCEPT ![t].pc = "cleared"] ELSE calls

\* this._abortController.abort(), when the field is set.
AbortInline(calls, a) ==
  IF a # 0 THEN [calls EXCEPT ![a].aborted = TRUE] ELSE calls

\* The editor asks for completions.
ProvideInlineCompletionItems ==
  /\ inline.nextCall < MaxInlineCalls
  /\ \E enableAutoCompletion \in BOOLEAN :
       LET n == inline.nextCall + 1
       IN  IF ~enableAutoCompletion
           THEN inline' = [inline EXCEPT
                  !.nextCall = n,
                  !.calls[n] = [InlineCallIdle EXCEPT !.pc = "returned",
                                                   !.promise = "resolved",
                                                   !.value = "empty"]]
           ELSE LET cleared == ClearTimeout(inline.calls, inline.timer)
                    aborted == AbortInline(cleared, inline.abortController)
                IN  inline' = [inline EXCEPT
                      !.nextCall = n,
                      !.timer = n,
                      !.calls = [aborted EXCEPT ![n] =
                                   [InlineCallIdle EXCEPT !.pc = "debounce",
                                                          !.promise = "pending"]]]

\* The debounce timer of call c fires: the callback runs up to its await.
TimerFires(c) ==
  /\ inline.calls[c].pc = "debounce"
  /\ \E promptData \in BOOLEAN, apiKey \in BOOLEAN :
       IF inline.calls[c].cancelled
       THEN inline' = [inline EXCEPT
              !.calls[c] = [ResolveItems(@, "empty") EXCEPT !.pc = "returned"]]
       ELSE LET made == [inline.calls[c] EXCEPT !.aborted = FALSE, !.listening = TRUE]
            IN  IF ~promptData \/ ~apiKey
                THEN inline' = [inline EXCEPT
                       !.abortController = c,
                       !.loading = FALSE,
                       !.calls[c] = [ResolveItems(made, "empty") EXCEPT !.pc = "returned"]]
                ELSE inline' = [inline EXCEPT
                       !.abortController = c,
                       !.loading = TRUE,
                       !.calls[c] = [made EXCEPT !.pc = "fetching"]]

FetchOutcomes == {"text", "blank", "throws"}

\* fetchAICompletion of call c settles: the rest of the callback runs.
FetchSettles(c) ==
  /\ inline.calls[c].pc = "fetching"
  /\ \E outcome \in FetchOutcomes :
       /\ inline.calls[c].aborted => outcome # "text"
       /\ inline' = [inline EXCEPT
            !.loading = FALSE,
            !.calls[c] = [ResolveItems(@, IF outcome = "text" THEN "item" ELSE "empty")
                            EXCEPT !.pc = "returned"]]

\* The editor cancels the token of call c.
CancelToken(c) ==
  /\ inline.calls[c].promise # "none"
  /\ ~inline.calls[c].cancelled
  /\ IF inline.calls[c].listening
     THEN LET aborted == AbortInline(inline.calls, inline.abortController)
          IN  inline' = [inline EXCEPT
                !.loading = FALSE,
                !.calls = [aborted EXCEPT ![c] =
                             [ResolveItems(aborted[c], "empty") EXCEPT !.cancelled = TRUE]]]
     ELSE inline' = [inline EXCEPT !.calls[c].cancelled = TRUE]

InlineInit ==
  inline = [calls |-> [c \in InlineCalls |-> InlineCallIdle],
            nextCall |-> 0, timer |-> 0, abortController |-> 0, loading |-> FALSE]

InlineIdle == InlineInit

(***************************************************************************)
(* Specifications.                                                         *)
(***************************************************************************)
\* No call of either kind is made in the chat behaviours and conversely:
\* the state of the parts a specification does not exercise stays as built.
CallIdle ==
  call = [phase |-> "idle", stream |-> <<>>, pos |-> 0, aborted |-> FALSE,
          buffer |-> <<>>, fullContent |-> <<>>, fullReasoning |-> <<>>,
          promise |-> "pending", value |-> <<>>, error |-> "none",
          updates |-> <<>>, received |-> <<>>, delivered |-> 0, lateUpdates |-> 0,
          ended |-> FALSE, posts |-> 0]

RetryIdle == retry = [pc |-> "idle", i |-> 0, aborted |-> FALSE, abortedIn |-> "none",
                      delaysAtAbort |-> 0, attempts |-> 0,
                      outcomes |-> <<>>, delays |-> <<>>, result |-> 0,
                      error |-> Err("none", FALSE, 0)]

Init == ChatInit /\ CallIdle /\ RetryIdle /\ FilesIdle /\ InlineIdle

Next ==
  \/ SendMessage(MaxGen, SendInputs) /\ UNCHANGED <<inline, retry, call, fileVars, sent>>
  \/ StopGeneration /\ UNCHANGED <<inline, retry, call, fileVars, sent>>
  \/ WebviewReceive /\ UNCHANGED <<inline, retry, call, fileVars, sent>>
  \/ \E g \in Gens : SearchDone(g) /\ UNCHANGED <<inline, retry, call, fileVars, sent>>
  \/ \E g \in Gens : ResponseHeaders(g) /\ UNCHANGED <<inline, retry, call, fileVars, sent>>
  \/ \E g \in Gens : RequestFails(g) /\ UNCHANGED <<inline, retry, call, fileVars, sent>>
  \/ \E g \in Gens : StreamData(g, MaxChunks) /\ UNCHANGED <<inline, retry, call, fileVars, sent>>
  \/ \E g \in Gens : StreamEnds(g) /\ UNCHANGED <<inline, retry, call, fileVars, sent>>
  \/ \E g \in Gens : StreamFails(g) /\ UNCHANGED <<inline, retry, call, fileVars, sent>>

Spec == Init /\ [][Next]_vars

NextCutover ==
  \/ SendMessage(MaxCutoverGen, DirectInputs) /\ UNCHANGED <<inline, retry, call, fileVars, sent>>
  \/ StopGeneration /\ UNCHANGED <<inline, retry, call, fileVars, sent>>
  \/ WebviewReceive /\ UNCHANGED <<inline, retry, call, fileVars, sent>>
  \/ \E g \in Gens : ResponseHeaders(g) /\ UNCHANGED <<inline, retry, call, fileVars, sent>>
  \/ \E g \in Gens : RequestFails(g) /\ UNCHANGED <<inline, retry, call, fileVars, sent>>
  \/ \E g \in Gens : StreamData(g, MaxCutoverChunks) /\ UNCHANGED <<inline, retry, call, fileVars, sent>>
  \/ \E g \in Gens : StreamEnds(g) /\ UNCHANGED <<inline, retry, call, fileVars, sent>>
  \/ \E g \in Gens : StreamFails(g) /\ UNCHANGED <<inline, retry, call, fileVars, sent>>

SpecCutover == Init /\ [][NextCutover]_vars

\* The chat surface when every search and request settles, every open
\* response stream ends or fails, and the webview handles what it is posted.
\* The user is under no obligation to send or to stop.
Fairness ==
  /\ WF_vars(WebviewReceive /\ UNCHANGED <<inline, retry, call, fileVars, sent>>)
  /\ \A g \in Gens : WF_vars(SearchDone(g) /\ UNCHANGED <<inline, retry, call, fileVars, sent>>)
  /\ \A g \in Gens : WF_vars((ResponseHeaders(g) \/ RequestFails(g))
                                /\ UNCHANGED <<inline, retry, call, fileVars, sent>>)
  /\ \A g \in Gens : WF_vars((StreamEnds(g) \/ StreamFails(g))
                                /\ UNCHANGED <<inline, retry, call, fileVars, sent>>)

NextLive ==
  \/ SendMessage(MaxLiveGen, SendInputs) /\ UNCHANGED <<inline, retry, call, fileVars, sent>>
  \/ StopGeneration /\ UNCHANGED <<inline, retry, call, fileVars, sent>>
  \/ WebviewReceive /\ UNCHANGED <<inline, retry, call, fileVars, sent>>
  \/ \E g \in Gens : SearchDone(g) /\ UNCHANGED <<inline, retry, call, fileVars, sent>>
  \/ \E g \in Gens : ResponseHeaders(g) /\ UNCHANGED <<inline, retry, call, fileVars, sent>>
  \/ \E g \in Gens : RequestFails(g) /\ UNCHANGED <<inline, retry, call, fileVars, sent>>
  \/ \E g \in Gens : StreamData(g, MaxLiveChunks) /\ UNCHANGED <<inline, retry, call, fileVars, sent>>
  \/ \E g \in Gens : StreamEnds(g) /\ UNCHANGED <<inline, retry, call, fileVars, sent>>
  \/ \E g \in Gens : StreamFails(g) /\ UNCHANGED <<inline, retry, call, fileVars, sent>>

SpecLive == Init /\ [][NextLive]_vars /\ Fairness

InitDecoder == CallInit /\ ChatInit /\ RetryIdle /\ FilesIdle /\ InlineIdle

NextDecoder ==
  \/ CallHeaders /\ UNCHANGED <<inline, retry, chatVars, fileVars>>
  \/ CallPostFails /\ UNCHANGED <<inline, retry, chatVars, fileVars>>
  \/ CallAbort /\ UNCHANGED <<inline, retry, chatVars, fileVars>>
  \/ CallData /\ UNCHANGED <<inline, retry, chatVars, fileVars>>
  \/ CallEnd /\ UNCHANGED <<inline, retry, chatVars, fileVars>>
  \/ CallStreamError /\ UNCHANGED <<inline, retry, chatVars, fileVars>>

SpecDecoder == InitDecoder /\ [][NextDecoder]_vars

InitRetry == RetryInit /\ ChatInit /\ CallIdle /\ FilesIdle /\ InlineIdle

NextRetry ==
  \/ RetryAttemptSucceeds /\ UNCHANGED <<inline, call, chatVars, fileVars>>
  \/ RetryAttemptFails /\ UNCHANGED <<inline, call, chatVars, fileVars>>
  \/ RetryBackoffElapses /\ UNCHANGED <<inline, call, chatVars, fileVars>>
  \/ RetryAbort /\ UNCHANGED <<inline, call, chatVars, fileVars>>

SpecRetry == InitRetry /\ [][NextRetry]_vars

NextSend ==
  \/ SendMessageRecorded(MaxSendGen, ProviderInputs) /\ UNCHANGED <<inline, retry, call, fileVars>>
  \/ StopGeneration /\ UNCHANGED <<inline, retry, call, fileVars, sent>>
  \/ WebviewReceive /\ UNCHANGED <<inline, retry, call, fileVars, sent>>
  \/ \E g \in Gens : SearchDone(g) /\ UNCHANGED <<inline, retry, call, fileVars, sent>>
  \/ \E g \in Gens : ResponseHeaders(g) /\ UNCHANGED <<inline, retry, call, fileVars, sent>>
  \/ \E g \in Gens : RequestFails(g) /\ UNCHANGED <<inline, retry, call, fileVars, sent>>
  \/ \E g \in Gens : StreamData(g, MaxSendChunks) /\ UNCHANGED <<inline, retry, call, fileVars, sent>>
  \/ \E g \in Gens : StreamEnds(g) /\ UNCHANGED <<inline, retry, call, fileVars, sent>>
  \/ \E g \in Gens : StreamFails(g) /\ UNCHANGED <<inline, retry, call, fileVars, sent>>

SpecSend == Init /\ [][NextSend]_vars

NextPayload ==
  \/ SendMessage(MaxPayloadGen, KeyedInputs) /\ UNCHANGED <<inline, retry, call, fileVars, sent>>
  \/ StopGeneration /\ UNCHANGED <<inline, retry, call, fileVars, sent>>
  \/ WebviewReceive /\ UNCHANGED <<inline, retry, call, fileVars, sent>>
  \/ \E g \in Gens : SearchDone(g) /\ UNCHANGED <<inline, retry, call, fileVars, sent>>
  \/ \E g \in Gens : ResponseHeaders(g) /\ UNCHANGED <<inline, retry, call, fileVars, sent>>
  \/ \E g \in Gens : StreamData(g, MaxPayloadChunks) /\ UNCHANGED <<inline, retry, call, fileVars, sent>>
  \/ \E g \in Gens : StreamEnds(g) /\ UNCHANGED <<inline, retry, call, fileVars, sent>>

SpecPayload == Init /\ [][NextPayload]_vars

NextThink ==
  \/ SendMessage(MaxThinkGen, ThinkInputs) /\ UNCHANGED <<inline, retry, call, fileVars, sent>>
  \/ WebviewReceive /\ UNCHANGED <<inline, retry, call, fileVars, sent>>
  \/ \E g \in Gens : ResponseHeaders(g) /\ UNCHANGED <<inline, retry, call, fileVars, sent>>
  \/ \E g \in Gens : StreamDataOf(g, MaxThinkChunks, ThinkChunks)
                         /\ UNCHANGED <<inline, retry, call, fileVars, sent>>
  \/ \E g \in Gens : StreamEnds(g) /\ UNCHANGED <<inline, retry, call, fileVars, sent>>

SpecThink == Init /\ [][NextThink]_vars

InitFiles == FilesInit /\ ChatInit /\ CallIdle /\ RetryIdle /\ InlineIdle

NextFiles ==
  \/ ApplyFileChange /\ UNCHANGED <<inline, retry, call, chatVars>>
  \/ SaveFile /\ UNCHANGED <<inline, retry, call, chatVars>>
  \/ RevertFile /\ UNCHANGED <<inline, retry, call, chatVars>>

SpecFiles == InitFiles /\ [][NextFiles]_vars

NextNewChat ==
  \/ ApplyFileChange /\ UNCHANGED <<inline, retry, call, chatVars>>
  \/ SaveFile /\ UNCHANGED <<inline, retry, call, chatVars>>
  \/ RevertFile /\ UNCHANGED <<inline, retry, call, chatVars>>
  \/ NewChat /\ UNCHANGED <<inline, retry, call>>

SpecNewChat == InitFiles /\ [][NextNewChat]_vars

\* The inline completion provider when every debounce timer that is not
\* cleared fires and every request settles (axiosConfig.timeout).  The
\* editor is under no obligation to ask again or to cancel a token.
InlineFairness ==
  /\ \A c \in InlineCalls :
       WF_vars(TimerFires(c) /\ UNCHANGED <<retry, call, chatVars, fileVars>>)
  /\ \A c \in InlineCalls :
       WF_vars(FetchSettles(c) /\ UNCHANGED <<retry, call, chatVars, fileVars>>)

InitInline == InlineInit /\ ChatInit /\ CallIdle /\ RetryIdle /\ FilesIdle

NextInline ==
  \/ ProvideInlineCompletionItems /\ UNCHANGED <<retry, call, chatVars, fileVars>>
  \/ \E c \in InlineCalls : TimerFires(c) /\ UNCHANGED <<retry, call, chatVars, fileVars>>
  \/ \E c \in InlineCalls : FetchSettles(c) /\ UNCHANGED <<retry, call, chatVars, fileVars>>
  \/ \E c \in InlineCalls : CancelToken(c) /\ UNCHANGED <<retry, call, chatVars, fileVars>>

SpecInline == InitInline /\ [][NextInline]_vars /\ InlineFairness

(***************************************************************************)
(* Properties of the chat surface.                                         *)
(***************************************************************************)
\* Every message invocation g posted has been handled by the webview.
Drained(g) == \A i \in 1..Len(inbox) : inbox[i].gen # g

Failed(g) == gens[g].ending \in {"error", "nokey", "nosearchkey"}

\* C1: once a newer invocation of handleUserMessage has posted its
\* streamStart, no earlier invocation posts a streamUpdate any more.
C1_NoDeltaAfterCutover ==
  [][\A g \in Gens :
       ui'[g].streamUpdate > ui[g].streamUpdate
         => \A n \in Gens : n > g => ui[n].streamStart = 0]_vars

\* C2: an invocation canceled by stopGeneration while in flight posts exactly
\* one addWarningResponse, no streamEnd and no addErrorResponse.
C2_CancelPostsOneWarningOnly ==
  \A g \in Gens :
    (gens[g].stopped /\ gens[g].pc = "done")
      => /\ ui[g].addWarningResponse = 1
         /\ ui[g].streamEnd = 0
         /\ ui[g].addErrorResponse = 0

\* C3: no assistant entry is pushed to the history on account of an
\* invocation that stopGeneration canceled.
C3_CancelAppendsNothing ==
  \A g \in Gens : gens[g].stopped => ui[g].pushed = 0

\* C4: no assistant entry is pushed to the history on account of an
\* invocation that failed (transport error, missing key, missing search key).
C4_FailureAppendsNothing ==
  \A g \in Gens : Failed(g) => ui[g].pushed = 0

\* C5: every assistant entry of the history is the think-stripped complete
\* content of an invocation whose stream ended normally, and holds no
\* opening think tag.
C5_HistoryOnlyFinalized ==
  \A i \in 1..Len(history) :
    history[i].role = "assistant"
      => /\ \E g \in Gens : /\ gens[g].ending = "end"
                            /\ history[i].content = CleanContent(gens[g].fullContent)
         /\ \A k \in 1..Len(history[i].content) : history[i].content[k] # "<think>"

\* C6: an invocation whose stream ended normally posts one completion event
\* and has one assistant entry pushed for it, not two.
C6_CompletionAppendsOnce ==
  \A g \in Gens :
    (gens[g].ending = "end" /\ gens[g].pc = "done")
      => /\ ui[g].streamEnd = 1
         /\ ui[g].pushed <= 1
         /\ (Drained(g) => ui[g].pushed = 1)

\* C15: an invocation whose abort signal was raised while its call was in
\* flight (by stopGeneration or by a newer send) is reported as stopped by
\* the user, with an addWarningResponse, and not as a failure.
C15_CancelReportedAsStopped ==
  \A g \in Gens :
    (gens[g].ending = "abort" /\ gens[g].pc = "done")
      => /\ ui[g].addWarningResponse >= 1
         /\ ui[g].addErrorResponse = 0

\* C23: a send for a provider other than 'local' with no key configured
\* only posts one addErrorResponse: no request of any kind is begun and no
\* streamStart is posted; a send for 'local' with no key configured goes on
\* to its search or its request.
C23_MissingCredentialFailsFast ==
  \A g \in 1..Len(sent) :
    IF sent[g].model # "local" /\ ~sent[g].apiKey
    THEN /\ gens[g].pc = "done"
         /\ gens[g].ending = "nokey"
         /\ ui[g] = [UiNone EXCEPT !.addErrorResponse = 1, !.pushed = ui[g].pushed]
    ELSE (sent[g].model = "local" /\ ~sent[g].apiKey)
           => /\ gens[g].ending # "nokey"
              /\ (~sent[g].useWebSearch => ui[g].streamStart = 1)
              /\ (sent[g].useWebSearch /\ sent[g].serpKey
                    => gens[g].pc = "search" \/ ui[g].streamStart = 1)

C23_Witness ==
  /\ Len(sent) = 1
  /\ sent[1].model = "local" /\ ~sent[1].apiKey /\ ~sent[1].useWebSearch
  /\ gens[1].ending = "end"
  /\ ui[1].streamUpdate = 1

\* Invocation g is over and the surface is idle: the provider holds no
\* controller of g, the webview has handled all g posted and is not
\* generating, so that sendMessage() accepts the next message.
IdleAfter(g) ==
  /\ gens[g].pc = "done"
  /\ abortController # g
  /\ Drained(g)
  /\ ~isGenerating

\* C24: however an invocation of handleUserMessage ends, the surface comes
\* back to idle after it.
C24_ReturnsToIdle ==
  \A g \in Gens : (gens[g].pc # "idle") ~> IdleAfter(g)

C24_Witness ==
  /\ IdleAfter(1) /\ gens[1].ending = "abort" /\ gens[1].stopped
  /\ ui[1].streamUpdate = 2
  /\ inbox = <<>>

(***************************************************************************)
\* The deltas of the stream delivered as one chunk.
SingleChunk(stream) == OnData(DecoderInit, stream).out

\* The frame a complete line of text carries, if it is a well-formed frame
\* with a delta that is not empty.
IsDataLine(line) ==
  /\ StartsWith(Trim(line), DataPrefix)
  /\ SubSeq(Trim(line), Len(DataPrefix) + 1, Len(Trim(line))) # DoneSentinel

PayloadOf(line) == ParseFrame(SubSeq(Trim(line), Len(DataPrefix) + 1, Len(Trim(line))))

IsMalformedLine(line) == IsDataLine(line) /\ ~PayloadOf(line).ok

CarriesDelta(line) ==
  /\ IsDataLine(line)
  /\ PayloadOf(line).ok
  /\ (PayloadOf(line).content # <<>> \/ PayloadOf(line).reasoning # <<>>)

\* The lines of a text that are terminated by a newline.
CompleteLines(text) == SubSeq(SplitLines(text), 1, Len(SplitLines(text)) - 1)

RECURSIVE DeltasOfLines(_)
DeltasOfLines(lines) ==
  IF lines = <<>> THEN <<>>
  ELSE (IF CarriesDelta(Head(lines))
        THEN <<[content |-> PayloadOf(Head(lines)).content,
                reasoning |-> PayloadOf(Head(lines)).reasoning]>>
        ELSE <<>>) \o DeltasOfLines(Tail(lines))

\* C7: whatever the chunking, once the stream has ended the content deltas
\* and the reasoning deltas concatenate to what a single chunk gives.
C7_ChunkBoundaryInvariance ==
  call.ended
    => /\ ContentOf(call.updates) = ContentOf(SingleChunk(call.stream))
       /\ ReasoningOf(call.updates) = ReasoningOf(SingleChunk(call.stream))

\* C8: the caller is handed at most one outcome; when the transport is
\* finished it has been handed exactly one; onUpdate is never invoked after
\* the outcome.
C8_OneOutcomeNoLateUpdate ==
  /\ call.delivered <= 1
  /\ (call.phase = "closed" => call.delivered = 1)
  /\ (call.promise = "pending" <=> call.delivered = 0)
  /\ call.lateUpdates = 0

C8_Witness ==
  /\ call.phase = "closed" /\ call.ended /\ call.promise = "resolved"
  /\ Len(call.updates) >= 2

\* C9: the deltas passed to onUpdate are exactly those of the well-formed
\* frames among the complete lines received, in order: a line that is not
\* valid JSON adds none and hides none; and a stream that reaches its end
\* resolves the call whatever its lines held.
C9_MalformedFrameAbsorbed ==
  /\ call.updates = DeltasOfLines(CompleteLines(call.received))
  /\ (call.ended => call.promise = "resolved")
  /\ (call.promise = "rejected" => call.error \in {"network", "canceled"})

C9_Witness ==
  /\ call.ended
  /\ IsMalformedLine(CompleteLines(call.received)[1])
  /\ Len(call.updates) = 2
  /\ call.promise = "resolved"

\* C14: a streaming call makes one axios.post whatever happens to it, and
\* the response is consumed once: no byte is decoded twice and no more
\* deltas are passed to onUpdate than the response carries.
C14_StreamingNotReissued ==
  /\ call.posts = 1
  /\ call.pos <= Len(call.stream)
  /\ Len(call.received) <= call.pos
  /\ Len(call.updates) <= Len(SingleChunk(call.stream))

C14_Witness ==
  /\ call.phase = "closed"
  /\ call.promise = "rejected"
  /\ call.error = "network"
  /\ Len(call.updates) >= 1
  /\ call.pos < Len(call.stream)

(***************************************************************************)
(* Properties of axiosPostWithRetry.                                       *)
(***************************************************************************)
\* C10: two retryable failures then a success: the third response is
\* returned after exactly 3 attempts and the delays 1000 ms then 2000 ms.
C10_ThirdAttemptReturns ==
  (/\ Len(retry.outcomes) = 3
   /\ isRetryableError(retry.outcomes[1])
   /\ isRetryableError(retry.outcomes[2])
   /\ retry.outcomes[3] = Responded)
    => /\ retry.pc = "returned"
       /\ retry.result = 3
       /\ retry.attempts = 3
       /\ retry.delays = <<1000, 2000>>

C10_Witness ==
  /\ retry.pc = "returned"
  /\ Len(retry.outcomes) = 3
  /\ retry.outcomes[3] = Responded

\* An HTTP 4xx response with none of the transient error codes.
IsClientError(err) ==
  /\ err.status >= 400 /\ err.status < 500
  /\ err.code \notin {"ECONNRESET", "ETIMEDOUT", "ECONNABORTED"}
  /\ ~err.hangUp

\* C11: an attempt that fails with an HTTP 4xx and no transient error code
\* (a 401 on the first attempt among them) is the last attempt: its error is
\* thrown at once, with no backoff begun after it.
C11_FatalErrorNotRetried ==
  \A k \in 1..Len(retry.outcomes) :
    IsClientError(retry.outcomes[k])
      => /\ k = Len(retry.outcomes)
         /\ retry.pc = "thrown"
         /\ retry.error = retry.outcomes[k]
         /\ retry.attempts = k
         /\ Len(retry.delays) = k - 1

C11_Witness ==
  /\ retry.pc = "thrown"
  /\ retry.outcomes = <<Err("ERR_BAD_REQUEST", FALSE, 401)>>
  /\ retry.attempts = 1
  /\ retry.delays = <<>>

\* C12: an attempt rejected because the abort signal was raised is the last
\* one, on whichever attempt it happens: its CanceledError is thrown and no
\* backoff is begun once the signal is raised, also when it is raised while a
\* backoff is awaited.
C12_CancelNotRetried ==
  /\ \A k \in 1..Len(retry.outcomes) :
       isCancel(retry.outcomes[k])
         => /\ k = Len(retry.outcomes)
            /\ retry.pc = "thrown"
            /\ isCancel(retry.error)
            /\ Len(retry.delays) = k - 1
  /\ (retry.aborted => Len(retry.delays) = retry.delaysAtAbort)
  /\ (retry.aborted /\ retry.pc = "thrown" => isCancel(retry.error))

C12_Witness ==
  /\ retry.abortedIn = "backoff"
  /\ retry.pc = "thrown"
  /\ Len(retry.outcomes) = 3
  /\ isCancel(retry.outcomes[3])

\* C13: never more than 3 attempts nor more than 2 backoffs; after three
\* retryable failures the call is over, the third error is the one thrown,
\* callChatAI rethrows it, and no backoff follows the third attempt.
C13_RetryBudget ==
  /\ retry.attempts <= Retries + 1
  /\ Len(retry.delays) <= Retries
  /\ retry.pc \in {"attempt", "backoff"} => retry.attempts <= Retries
  /\ (/\ Len(retry.outcomes) = Retries + 1
      /\ \A k \in 1..(Retries + 1) : isRetryableError(retry.outcomes[k]))
       => /\ retry.pc = "thrown"
          /\ retry.error = retry.outcomes[Retries + 1]
          /\ Len(retry.delays) = Retries
          /\ NonStreamingResult(retry) =
               [kind |-> "throw", value |-> "", error |-> retry.outcomes[Retries + 1]]

C13_Witness ==
  /\ retry.pc = "thrown"
  /\ retry.attempts = 3
  /\ retry.outcomes[1] = Err("ECONNRESET", FALSE, 0)
  /\ retry.outcomes[2] = Err("ERR_BAD_RESPONSE", FALSE, 503)
  /\ retry.outcomes[3] = Err("none", TRUE, 0)
  /\ retry.delays = <<1000, 2000>>

(***************************************************************************)
(* Properties of the file commands.                                        *)
(***************************************************************************)
\* The commands handled so far that resolved to fsPath p, in order.
OpsOn(p) == SelectSeq(fileLog, LAMBDA e : e.fsPath = p)

\* The kinds of those commands whose edit took effect, or "-" for any other.
RECURSIVE Effective(_)
Effective(log) ==
  IF log = <<>> THEN <<>>
  ELSE <<IF Head(log).edit = "applied" \/ Head(log).op = "save"
         THEN Head(log).op ELSE "-">> \o Effective(Tail(log))

\* The path is as it was when the session began.
Restored(p) ==
  IF pristine[p].exists
  THEN disk[p] = pristine[p] /\ getText(Files, p) = pristine[p].text
  ELSE ~disk[p].exists /\ ~docs[p].open

\* What a backup of the path taken when the session began holds.
PristineBackup(p) ==
  IF pristine[p].exists THEN BackupOf(pristine[p].text) ELSE BackupNull

\* C16: the entry of a path is made by the first apply handled for it and
\* holds, after any commands, what the path was before that apply; apply A,
\* apply B, revert gives back the state before A.
C16_BackupWriteOnce ==
  \A p \in FsPaths :
    /\ fileBackupMap[p].has <=> \E i \in 1..Len(fileLog) :
                                  fileLog[i].op = "apply" /\ fileLog[i].fsPath = p
    /\ fileBackupMap[p].has => fileBackupMap[p] = PristineBackup(p)
    /\ Effective(OpsOn(p)) = <<"apply", "apply", "revert">> => Restored(p)

C16_Witness ==
  /\ Effective(OpsOn("/ws/a.txt")) = <<"apply", "apply", "revert">>
  /\ fileLog[1].content = "x" /\ fileLog[2].content = "y"
  /\ pristine["/ws/a.txt"] = FileOf("c")
  /\ getText(Files, "/ws/a.txt") = "c"
  /\ fileBackupMap["/ws/a.txt"] = BackupOf("c")

\* C17: one apply then the revert of the same path, both taking effect,
\* leave a path that existed with its content and a path that did not exist
\* non-existent.
C17_ApplyRevertRoundTrip ==
  \A p \in FsPaths :
    Effective(OpsOn(p)) = <<"apply", "revert">> => Restored(p)

C17_Witness ==
  /\ Effective(OpsOn("/ws/a.txt")) = <<"apply", "revert">>
  /\ ~pristine["/ws/a.txt"].exists
  /\ ~disk["/ws/a.txt"].exists

LastFileOp == fileLog[Len(fileLog)]

\* C18: a revert that takes effect deletes the path when its entry is null
\* and otherwise leaves the path existing with the captured text; an entry
\* holding the empty string leaves an existing path with empty text.
C18_EmptyBackupIsNotAbsent ==
  (/\ fileLog # <<>>
   /\ LastFileOp.op = "revert"
   /\ LastFileOp.edit = "applied")
    => IF fileBackupMap[LastFileOp.fsPath].isNull
       THEN ~disk[LastFileOp.fsPath].exists
       ELSE /\ disk[LastFileOp.fsPath].exists
            /\ getText(Files, LastFileOp.fsPath) = fileBackupMap[LastFileOp.fsPath].text

C18_Witness ==
  /\ fileLog # <<>>
  /\ LastFileOp.op = "revert"
  /\ LastFileOp.edit = "applied"
  /\ fileBackupMap[LastFileOp.fsPath] = BackupOf("")
  /\ disk[LastFileOp.fsPath].exists
  /\ getText(Files, LastFileOp.fsPath) = ""

\* No apply of a path naming the same file has been handled beyond the
\* resolution of its path.
NeverApplied(filepath) ==
  \A i \in 1..Len(fileLog) :
    fileLog[i].op = "apply"
      => \/ fileLog[i].result = "NoWorkspaceOpen"
         \/ fileLog[i].fsPath # resolveFilePath(TRUE, filepath)

\* This step handles a revert of a path never applied.
RevertOfNeverApplied ==
  /\ Len(fileLog') = Len(fileLog) + 1
  /\ fileLog'[Len(fileLog')].op = "revert"
  /\ NeverApplied(fileLog'[Len(fileLog')].filepath)

C20_AbsolutePathNeedsNoWorkspace ==
  \A i \in 1..Len(fileLog) :
    fileLog[i].op = "apply"
      => /\ fileLog[i].result = "NoWorkspaceOpen"
              => (~isAbsolute(fileLog[i].filepath) /\ ~workspaceFolders)
         /\ isAbsolute(fileLog[i].filepath)
              => (/\ fileLog[i].fsPath = fileLog[i].filepath
                  /\ fileLog[i].result # "NoWorkspaceOpen")

\* This step handles a save.
SaveStep ==
  /\ Len(fileLog') = Len(fileLog) + 1
  /\ fileLog'[Len(fileLog')].op = "save"

\* C21: with a workspace folder open, a save of a path whose document is
\* open writes the document's text to durable storage; a save of a path
\* whose document is not open fails, opening no document and writing nothing.
C21_SaveNeedsOpenDocument ==
  [][(SaveStep /\ workspaceFolders) =>
       LET p == resolveFilePath(TRUE, fileLog'[Len(fileLog')].filepath) IN
       IF docs[p].open
       THEN /\ fileLog'[Len(fileLog')].result = "fileChangeSaved"
            /\ disk'[p] = FileOf(docs[p].text)
       ELSE /\ fileLog'[Len(fileLog')].result = "saveFailed"
            /\ UNCHANGED <<disk, docs>>]_vars

\* This step handles an apply.
ApplyStep ==
  /\ Len(fileLog') = Len(fileLog) + 1
  /\ fileLog'[Len(fileLog')].op = "apply"

\* The text openTextDocument gives for the path, "" when there is none.
TextAt(d, k, p) == IF k[p].open THEN k[p].text ELSE d[p].text

\* C22: every apply is answered by fileChangeApplied or fileChangeError; an
\* apply that fails (no workspace folder, or the edit rejected or throwing)
\* is answered by fileChangeError and leaves the path as it was.
C22_FailedApplyReported ==
  [][ApplyStep =>
       LET e == fileLog'[Len(fileLog')]
           p == resolveFilePath(TRUE, e.filepath)
       IN  /\ e.result \in {"fileChangeApplied", "fileChangeError"}
           /\ e.edit # "applied"
                => /\ e.result = "fileChangeError"
                   /\ disk' = disk
                   /\ TextAt(disk', docs', p) = TextAt(disk, docs, p)]_vars

(***************************************************************************)
(* Properties of the completion render.                                    *)
(***************************************************************************)
\* Position i of t lies in a think span: an opening tag at or before it has
\* no closing tag between the two (the closing tag itself is in the span).
Covered(t, i) ==
  \E j \in 1..i : /\ t[j] = "<think>"
                  /\ \A k \in (j + 1)..(i - 1) : t[k] # "</think>"

RECURSIVE OutsideSpans(_, _)
OutsideSpans(t, i) ==
  IF i > Len(t) THEN <<>>
  ELSE (IF Covered(t, i) THEN <<>> ELSE <<t[i]>>) \o OutsideSpans(t, i + 1)

RECURSIVE InsideSpans(_, _)
InsideSpans(t, i) ==
  IF i > Len(t) THEN <<>>
  ELSE (IF Covered(t, i) /\ t[i] \notin {"<think>", "</think>"} THEN <<t[i]>> ELSE <<>>)
         \o InsideSpans(t, i + 1)

IsPlain(c) == c \notin {"<think>", "</think>", "\n"}

ExampleClosed == <<"x", "<think>", "x", "</think>", "x">>
ExampleOpen == <<"x", "<think>", "x">>

\* C25: at the completion render every think span of the accumulated text,
\* closed or running to the end of the text, is left out of the content
\* block and shown in the reasoning block; x<think>x</think>x renders
\* content xx with reasoning x, and x<think>x renders content x with
\* reasoning x.
C25_ThinkSpansRouted ==
  [][finalHtml' # finalHtml =>
       LET t == currentAiContent IN
       /\ finalHtml'.content = OutsideSpans(t, 1)
       /\ SelectSeq(finalHtml'.reasoning, IsPlain) = InsideSpans(t, 1)
       /\ t = ExampleClosed =>
            finalHtml'.content = <<"x", "x">> /\ finalHtml'.reasoning = <<"x">>
       /\ t = ExampleOpen =>
            finalHtml'.content = <<"x">> /\ finalHtml'.reasoning = <<"x">>]_vars

C25_Witness ==
  /\ finalHtml.gen = 1
  /\ currentAiContent = ExampleClosed
  /\ finalHtml.content = <<"x", "x">>
  /\ finalHtml.reasoning = <<"x">>

(***************************************************************************)
(* Properties of the new-chat button.                                      *)
(***************************************************************************)
\* The command at k reverts a path that was applied before the new chat at j
\* and not since.
RevertAcrossNewChat(j, k) ==
  /\ j < k
  /\ fileLog[j].op = "newChat"
  /\ fileLog[k].op = "revert"
  /\ \E i \in 1..(j - 1) : /\ fileLog[i].op = "apply"
                            /\ fileLog[i].fsPath = fileLog[k].fsPath
                            /\ fileLog[i].result = "fileChangeApplied"
  /\ \A i \in (j + 1)..(k - 1) : ~(fileLog[i].op = "apply"
                                     /\ fileLog[i].fsPath = fileLog[k].fsPath)

\* C26: once the new-chat button has been clicked the backup map is empty,
\* and a revert of a path applied before the click and not since reports
\* that no backup was found.
C26_NewChatClearsBackups ==
  /\ (fileLog # <<>> /\ LastFileOp.op = "newChat") =>
       \A p \in FsPaths : ~fileBackupMap[p].has
  /\ \A j, k \in 1..Len(fileLog) :
       RevertAcrossNewChat(j, k) => fileLog[k].result = "NoBackupFound"

(***************************************************************************)
(* Properties of the request payload.                                      *)
(***************************************************************************)
\* Where the webview's history holds the user message of send g.
UserEntryOf(g) ==
  LET users == {i \in 1..Len(history) : history[i].role = "user"}
  IN  CHOOSE i \in users : Cardinality({j \in users : j <= i}) = g

\* The history the webview had when the user made send g.
HistoryBefore(g) == SubSeq(history, 1, UserEntryOf(g) - 1)

\* C27: the messages of the payload are one system message, then the
\* history the webview posted with the send, entry for entry, then the new
\* user message; the history handed to handleUserMessage is still that
\* history once the payload is built.
C27_PayloadMessages ==
  \A g \in 1..nextGen :
    gens[g].payload.built =>
      LET m == gens[g].payload.messages
          n == Len(m)
      IN  /\ gens[g].history = HistoryBefore(g)
          /\ n = Len(HistoryBefore(g)) + 2
          /\ m[1] = [role |-> "system", content |-> SystemPrompt]
          /\ SubSeq(m, 2, n - 1) = HistoryBefore(g)
          /\ m[n].role = "user"
          /\ StartsWith(m[n].content, history[UserEntryOf(g)].content)
          /\ \A i \in 2..(n - 1) : m[i].role # "system"

C27_Witness ==
  /\ nextGen = 2
  /\ gens[2].payload.built
  /\ Len(gens[2].history) >= 2
  /\ \E i \in 1..Len(gens[2].history) : gens[2].history[i].role = "assistant"
  /\ gens[2].payload.messages[2] = history[1]

(***************************************************************************)
(* Properties of the line decoder.                                         *)
(***************************************************************************)
\* The text the chunk of this step decoded to.
ArrivedText == SubSeq(call'.received, Len(call.received) + 1, Len(call'.received))

HasNewline(text) == \E i \in 1..Len(text) : text[i] = "\n"

\* C28: a data event passes to onUpdate, after the deltas already passed,
\* those of the lines that the carried-over text followed by the arrived
\* text completes, in the order of the lines, and nothing when the arrived
\* text holds no newline; what follows the last newline is carried over
\* unparsed.
C28_LinesParsedWhenComplete ==
  [][call'.received # call.received =>
       LET text == call.buffer \o ArrivedText IN
       /\ call'.updates = call.updates \o DeltasOfLines(CompleteLines(text))
       /\ ~HasNewline(ArrivedText) => call'.updates = call.updates
       /\ call'.buffer = SplitLines(text)[Len(SplitLines(text))]
       /\ ~HasNewline(call'.buffer)]_vars

\* The stream ended on a frame with no newline after it: the frame is still
\* in the buffer and its delta was never passed on.
C28_Witness ==
  /\ call.ended
  /\ CarriesDelta(call.buffer)
  /\ Len(call.updates) = 1
  /\ Len(DeltasOfLines(SplitLines(call.received))) = 2

IsSentinelLine(line) == Trim(line) = DataPrefix \o DoneSentinel

SentinelSeen == \E i \in 1..Len(CompleteLines(call.received)) :
                  IsSentinelLine(CompleteLines(call.received)[i])

\* C29: the line  data: [DONE]  passes nothing to onUpdate and settles
\* nothing: the deltas are those of the other lines, the frames after the
\* sentinel among them; while the stream is open the promise stays pending;
\* it resolves only on the end event and rejects only on a transport error.
C29_SentinelIgnored ==
  LET lines == CompleteLines(call.received)
      rest == SelectSeq(lines, LAMBDA l : ~IsSentinelLine(l))
  IN  /\ call.updates = DeltasOfLines(rest)
      /\ Len(call.updates) = Cardinality({i \in 1..Len(lines) : CarriesDelta(lines[i])})
      /\ (SentinelSeen /\ call.phase = "streaming") => call.promise = "pending"
      /\ (SentinelSeen /\ call.promise = "resolved") => call.ended
      /\ (SentinelSeen /\ call.promise = "rejected") =>
           call.error \in {"network", "canceled"}

\* The sentinel came first and the frame after it was decoded.
C29_Witness ==
  /\ call.ended /\ call.promise = "resolved"
  /\ IsSentinelLine(CompleteLines(call.received)[1])
  /\ call.updates = <<[content |-> <<"y">>, reasoning |-> <<>>]>>
  /\ call.value = <<"y">>

(***************************************************************************)
(* Properties of the accumulators.                                         *)
(***************************************************************************)
\* C30: the decoder's fullContent is the concatenation of the content
\* deltas passed to onUpdate so far and the value resolved at the end of the
\* stream is that concatenation; and while the webview shows the message of
\* a generation, once it has handled every message that generation posted,
\* its currentAiContent is that generation's fullContent.
C30_AccumulatorsConsistent ==
  /\ call.fullContent = ContentOf(call.updates)
  /\ call.ended => call.value = ContentOf(call.updates)
  /\ \A g \in Gens :
       (currentAiMessageDiv = g /\ Drained(g)) => currentAiContent = gens[g].fullContent

(***************************************************************************)
(* Properties of the controller.                                           *)
(***************************************************************************)
\* Invocation g has reached an await it has not come back from.
InFlight(g) == gens[g].pc \in {"search", "request", "streaming"}

\* C31: while the invocation started last is in flight and its signal has
\* not been raised, _abortController is its controller, so that a
\* stopGeneration command aborts it; the finally block of an earlier
\* invocation does not take it away.
C31_ControllerIsLatest ==
  (nextGen > 0 /\ InFlight(nextGen) /\ ~gens[nextGen].aborted)
    => abortController = nextGen

(***************************************************************************)
(* Properties of the order of the messages of an invocation.               *)
(***************************************************************************)
\* C32: an invocation posts streamEnd only once it has posted streamStart,
\* and posts a streamUpdate only after its streamStart and before its
\* streamEnd; an invocation that posted no streamStart posts no streamEnd.
C32_EventsWellOrdered ==
  [][\A g \in Gens :
       /\ ui'[g].streamEnd > ui[g].streamEnd => ui'[g].streamStart >= 1
       /\ ui'[g].streamUpdate > ui[g].streamUpdate
            => ui[g].streamStart = 1 /\ ui'[g].streamEnd = 0]_vars

\* The webview has rendered a streamUpdate into the current message element.
StreamRendered == currentAiContent # <<>> \/ currentAiReasoning # <<>>

\* C33: the completion render of a message shows the reasoning that its
\* last streaming render showed: the reasoning deltas accumulated in
\* currentAiReasoning and the groups of the think spans of the content.
C33_FinalReasoningKept ==
  [][(finalHtml' # finalHtml /\ StreamRendered) =>
       LET last == StreamRender(currentAiMessageDiv, currentAiReasoning, currentAiContent)
       IN  /\ finalHtml'.hasReasoning = last.hasReasoning
           /\ finalHtml'.reasoning = last.reasoning]_vars

(***************************************************************************)
(* Properties of the file commands: reporting and durable storage.         *)
(***************************************************************************)
\* C34: fileChangeApplied is posted for an apply only when the workspace
\* edit was applied, the text of the path's document being then the content
\* passed to the apply; a rejected edit posts no fileChangeApplied.
C34_AppliedOnlyIfApplied ==
  [][(ApplyStep /\ fileLog'[Len(fileLog')].result = "fileChangeApplied") =>
       LET e == fileLog'[Len(fileLog')]
       IN  /\ e.edit = "applied"
           /\ TextAt(disk', docs', e.fsPath) = e.content]_vars

\* C35: for a path that existed when the session began, an apply, a save
\* and a revert, each taking effect, leave on durable storage the content
\* the path began with.
C35_SavedApplyReverted ==
  \A p \in FsPaths :
    (pristine[p].exists /\ Effective(OpsOn(p)) = <<"apply", "save", "revert">>)
      => disk[p] = pristine[p]

(***************************************************************************)
(* Properties of the end of the stream.                                    *)
(***************************************************************************)
\* The text received after the last newline.
LastPiece == SplitLines(call.received)[Len(SplitLines(call.received))]

\* C36: when the stream has ended, what was received after the last newline
\* is still in the buffer, unparsed: the deltas passed to onUpdate and the
\* resolved value are those of the lines a newline ended, and a frame that
\* no newline followed adds to neither.
C36_CarryOverDiscardedAtEnd ==
  call.ended =>
    /\ call.buffer = LastPiece
    /\ call.promise = "resolved"
    /\ call.value = ContentOf(DeltasOfLines(CompleteLines(call.received)))
    /\ ReasoningOf(call.updates) = ReasoningOf(DeltasOfLines(CompleteLines(call.received)))
    /\ CarriesDelta(LastPiece) =>
         Len(call.updates) + 1 = Len(DeltasOfLines(SplitLines(call.received)))

C36_Witness ==
  /\ call.ended
  /\ CarriesDelta(call.buffer)
  /\ PayloadOf(call.buffer).content = <<"y">>
  /\ call.value = <<"x">>
  /\ ContentOf(call.updates) = <<"x">>

(***************************************************************************)
(* Properties of the inline completion provider.                           *)
(***************************************************************************)
\* C37: every call of provideInlineCompletionItems eventually has its
\* returned promise resolved, with an item or with the empty list, a call
\* whose timer a newer call cleared included.
C37_EveryCallResolves ==
  \A c \in InlineCalls :
    (inline.calls[c].promise = "pending") ~> (inline.calls[c].promise = "resolved")

====
